---- MODULE Spec2Model ----
(***************************************************************************)
(* video-verify: the browser-side frame sampler (pages/index.js and its    *)
(* fixed-fraction successor), the /api/analyze endpoint, and the response  *)
(* interpreter of lib/riskMapping.js.                                       *)
(*                                                                         *)
(* Time is counted in ticks, TicksPerSec to the second, chosen so that     *)
(* every quantity the samplers compute (a tenth, a quarter of a duration,  *)
(* a frame interval of 2/15 s or 1/8 s, a random draw times the usable     *)
(* window) is a whole number of ticks: the arithmetic below is the exact   *)
(* rational arithmetic of the source's formulas (IEEE rounding of the      *)
(* doubles is not modelled).  Scores are counted in tenths.                *)
(***************************************************************************)
EXTENDS Integers, Sequences, FiniteSets, TLC

\* ------------------------------------------------------------------ bounds
\* Math.random() returns one of 0/RandSteps .. (RandSteps-1)/RandSteps.
RandSteps == 3
\* The stream of Math.random() results repeats with this period.
RandPeriod == 3
\* Short videos: 1 .. MaxShortDur half-seconds.
MaxShortDur == 8
\* Long videos, in seconds.
LongDurationsSec == {10, 40}

TicksPerSec == 120 * RandSteps
Sec(n) == n * TicksPerSec

Durations ==
  {h * (TicksPerSec \div 2) : h \in 1..MaxShortDur} \cup {Sec(s) : s \in LongDurationsSec}

Streams == [1..RandPeriod -> 0..(RandSteps - 1)]

\* ------------------------------------------------------------- JS helpers
Min(a, b) == IF a < b THEN a ELSE b
Max(a, b) == IF a > b THEN a ELSE b
Abs(a) == IF a < 0 THEN 0 - a ELSE a

\* JS null (the error state's "no error").
Null == "null"

VARIABLES
  variant,            \* which page is deployed: "random" (pages/index.js) or "fixed"
  file,               \* Home: a video file is selected
  loading,            \* Home: loading
  error,              \* Home: error (a message, or Null)
  percent,            \* Home: progress.percent
  pc,                 \* handleAnalyze: "idle", "awaitFrames", "awaitFetch", "navigated"
  promise,            \* extractFrames' promise: "none", "pending", "resolved", "rejected"
  objectUrl,          \* the object URL of video.src: "none", "live", "revoked"
  videoState,         \* the video element: "none", "loading", "seeking", "idle", "stalled", "error"
  duration,           \* video.duration in ticks (0 until the metadata is loaded)
  pendingSeeks,       \* timestamps assigned to video.currentTime whose seek has not completed
  issuedSeeks,        \* every timestamp assigned to video.currentTime by this call, in order
  segmentTimestamps,  \* extractFrames: segmentTimestamps
  attemptsUsed,       \* extractFrames: the value of attempts when each candidate was accepted
  currentSegment,     \* extractFrames: currentSegment
  currentFrameInSegment, \* extractFrames: currentFrameInSegment
  allFrames,          \* extractFrames: allFrames
  fault,              \* what the browser did to this call: "none", "load_error", "seek_error",
                      \* "seek_stalled", "render_threw"
  request,            \* the POST to /api/analyze in flight
  oracle,             \* what the OpenAI call of this request did
  response,           \* the endpoint's answer
  analysisResult,     \* sessionStorage 'analysisResult'
  route,              \* router: "/" or "/results"
  assessment,         \* the interpreter's output: parseAnalysisResponse's result
  signals,            \* the interpreter's output: extractSignals' result
  confidence,         \* the interpreter's output: calculateConfidence's result, in tenths
  callLog             \* the calls made to lib/riskMapping.js so far: input and output of each

samplerVars ==
  <<promise, objectUrl, videoState, duration, pendingSeeks, issuedSeeks, segmentTimestamps,
    attemptsUsed, currentSegment, currentFrameInSegment, allFrames, fault>>
homeVars == <<variant, file, loading, error, percent, pc>>
serverVars == <<request, oracle, response>>
resultVars == <<analysisResult, route>>
interpVars == <<assessment, signals, confidence, callLog>>
vars == <<homeVars, samplerVars, serverVars, resultVars, interpVars>>

\* --------------------------------------------------------------- sampler
segments == 3
framesPerSegment == IF variant = "random" THEN 15 ELSE 8
segmentDuration == IF variant = "random" THEN Sec(2) ELSE Sec(1)
frameInterval == segmentDuration \div framesPerSegment
totalFrames == segments * framesPerSegment

\* pages/index.js: the safe window of the random-segment sampler.
safeStart(d) == Min(Sec(3), d \div 10)
safeEnd(d) == Max(d - Sec(3), (9 * d) \div 10)
usableDuration(d) == safeEnd(d) - safeStart(d) - segmentDuration

\* The n-th result of Math.random(), as a number of RandSteps-ths.
Draw(stream, n) == stream[((n - 1) % RandPeriod) + 1]

\* used.some(t => Math.abs(t - timestamp) < segmentDuration + 1)
tooClose(used, timestamp) ==
  \E i \in DOMAIN used : Abs(used[i] - timestamp) < segmentDuration + Sec(1)

MaxAttempts == 50

\* while (used.some(...) && attempts < 50)
retry(used, timestamp, attempts) ==
  tooClose(used, timestamp) /\ attempts < MaxAttempts

\* The do-while of one candidate; calls counts the Math.random() calls made so far.
RECURSIVE pickTimestamp(_, _, _, _, _)
pickTimestamp(d, used, stream, calls, attempts) ==
  LET timestamp == safeStart(d) + (Draw(stream, calls + 1) * usableDuration(d)) \div RandSteps
  IN  IF retry(used, timestamp, attempts + 1)
        THEN pickTimestamp(d, used, stream, calls + 1, attempts + 1)
        ELSE [timestamp |-> timestamp, attempts |-> attempts + 1, calls |-> calls + 1]

\* for (let i = 0; i < segments; i++) { do ... while; used.push; segmentTimestamps.push }
RECURSIVE pickSegments(_, _, _, _, _)
pickSegments(d, stream, used, calls, atts) ==
  IF Len(used) >= segments
    THEN [timestamps |-> used, attempts |-> atts]
    ELSE LET p == pickTimestamp(d, used, stream, calls, 0)
         IN  pickSegments(d, stream, Append(used, p.timestamp), p.calls,
                          Append(atts, p.attempts))

\* segmentTimestamps.sort((a, b) => a - b)
sortAscending(ts) == SortSeq(ts, LAMBDA a, b : a < b)

\* Short video: segmentTimestamps.push(safeStart + (usableDuration / segments) * i)
evenTimestamps(d) ==
  [i \in 1..segments |-> safeStart(d) + (usableDuration(d) \div segments) * (i - 1)]

shortVideo(d) == usableDuration(d) < segmentDuration * segments

randomPlacement(d, stream) ==
  IF shortVideo(d)
    THEN [timestamps |-> evenTimestamps(d), attempts |-> <<>>]
    ELSE LET p == pickSegments(d, stream, <<>>, 0, <<>>)
         IN  [timestamps |-> sortAscending(p.timestamps), attempts |-> p.attempts]

\* The fixed-fraction sampler: 25%, 50%, 75%, or for a very short video the safe
\* window's start, the midpoint and the safe window's end less one segment.
fixedSafeStart(d) == d \div 10
fixedSafeEnd(d) == (9 * d) \div 10
fixedTimestamps(d) ==
  IF d < Sec(3)
    THEN <<fixedSafeStart(d), d \div 2, fixedSafeEnd(d) - segmentDuration>>
    ELSE <<d \div 4, d \div 2, (3 * d) \div 4>>

\* The placement without the final clamp to duration - segmentDuration.
clampToDurationSkipped(ts, d) == ts

\* segmentTimestamps.map(t => Math.min(t, duration - segmentDuration))
clampToDuration(ts, d) == [i \in DOMAIN ts |-> Min(ts[i], d - segmentDuration)]

fixedPlacement(d) ==
  [timestamps |-> clampToDuration(fixedTimestamps(d), d), attempts |-> <<>>]

placement(d, stream) ==
  IF variant = "random" THEN randomPlacement(d, stream) ELSE fixedPlacement(d)

\* A faulty variant of captureFrame's test that stops one segment early.
captureDoneEarly(cs) == cs >= segments - 1

\* captureFrame's test: if (currentSegment >= segments)
captureDone(cs) == cs >= segments

\* A faulty variant of the assignment that also starts the seek of the frame after.
seeksIssuedAhead(timestamp) == <<timestamp, timestamp + frameInterval>>

\* video.currentTime = timestamp: the seeks the assignment starts.
seeksIssued(timestamp) == <<timestamp>>

\* captureFrame(): resolve with the frames and release the URL, or seek to the next
\* frame's timestamp; outstanding are the seeks that have not completed yet.
captureFrame(ts, cs, cf, outstanding) ==
  IF captureDone(cs)
    THEN /\ objectUrl' = "revoked"
         /\ promise' = IF promise = "pending" THEN "resolved" ELSE promise
         /\ pendingSeeks' = outstanding
         /\ videoState' = IF outstanding = <<>> THEN "idle" ELSE "seeking"
         /\ UNCHANGED issuedSeeks
    ELSE /\ pendingSeeks' = outstanding \o seeksIssued(ts[cs + 1] + cf * frameInterval)
         /\ issuedSeeks' = issuedSeeks \o seeksIssued(ts[cs + 1] + cf * frameInterval)
         /\ videoState' = "seeking"
         /\ UNCHANGED <<objectUrl, promise>>

\* The position the video ends at after a seek to t: the browser keeps it inside
\* the media's range.
seekPosition(t) == Max(0, Min(t, duration))

\* The same scaling with truncation in place of Math.round.
progressPercentTruncated(completedFrames) == (30 * completedFrames) \div totalFrames

\* Math.round((completedFrames / totalFrames) * 30), round-half-up of a non-negative.
progressPercent(completedFrames) == (60 * completedFrames + totalFrames) \div (2 * totalFrames)

\* currentFrameInSegment++; if (currentFrameInSegment >= framesPerSegment) { ... }
nextPosition(cs, cf) ==
  IF cf + 1 >= framesPerSegment THEN <<cs + 1, 0>> ELSE <<cs, cf + 1>>

\* --------------------------------------------------------------- strings
\* A text is the sequence of its characters.  JS undefined is Undef, a defined
\* value x is Def(x).
Undef == <<>>
Def(x) == <<x>>

LowerChars ==
  <<"a", "b", "c", "d", "e", "f", "g", "h", "i", "j", "k", "l", "m", "n", "o", "p", "q", "r", "s", "t", "u", "v", "w", "x", "y", "z">>
UpperChars ==
  <<"A", "B", "C", "D", "E", "F", "G", "H", "I", "J", "K", "L", "M", "N", "O", "P", "Q", "R", "S", "T", "U", "V", "W", "X", "Y", "Z">>

upperChar(c) ==
  IF \E k \in DOMAIN LowerChars : LowerChars[k] = c
    THEN UpperChars[CHOOSE k \in DOMAIN LowerChars : LowerChars[k] = c]
    ELSE c

\* String.prototype.toUpperCase
toUpperCase(s) == [i \in 1..Len(s) |-> upperChar(s[i])]

\* String.prototype.includes
includes(s, needle) ==
  \E i \in 1..(Len(s) - Len(needle) + 1) : SubSeq(s, i, i + Len(needle) - 1) = needle

\* The phrases parseLegacyResponse looks for.
N_LIKELY_AUTHENTIC ==
  <<"L", "I", "K", "E", "L", "Y", " ", "A", "U", "T", "H", "E", "N", "T", "I", "C">>
N_AUTHENTIC ==
  <<"A", "U", "T", "H", "E", "N", "T", "I", "C">>
N_LIKELY_MANIPULATED ==
  <<"L", "I", "K", "E", "L", "Y", " ", "M", "A", "N", "I", "P", "U", "L", "A", "T", "E", "D">>
N_MANIPULATED ==
  <<"M", "A", "N", "I", "P", "U", "L", "A", "T", "E", "D">>
N_POSSIBLY_MANIPULATED ==
  <<"P", "O", "S", "S", "I", "B", "L", "Y", " ", "M", "A", "N", "I", "P", "U", "L", "A", "T", "E", "D">>
N_SUSPICIOUS ==
  <<"S", "U", "S", "P", "I", "C", "I", "O", "U", "S">>
N_NO_SIGNS_OF_MANIPULATION ==
  <<"N", "O", " ", "S", "I", "G", "N", "S", " ", "O", "F", " ", "M", "A", "N", "I", "P", "U", "L", "A", "T", "I", "O", "N">>
N_APPEARS_AUTHENTIC ==
  <<"A", "P", "P", "E", "A", "R", "S", " ", "A", "U", "T", "H", "E", "N", "T", "I", "C">>
N_HIGH_CONFIDENCE ==
  <<"H", "I", "G", "H", " ", "C", "O", "N", "F", "I", "D", "E", "N", "C", "E">>
N_MANIPULAT ==
  <<"M", "A", "N", "I", "P", "U", "L", "A", "T">>

\* The three overall verdicts the free-text prompt asks the oracle to choose from.
PromptVerdicts == {N_LIKELY_AUTHENTIC, N_POSSIBLY_MANIPULATED, N_LIKELY_MANIPULATED}

\* "Overall verdict: "
VerdictPrefix ==
  <<"O", "v", "e", "r", "a", "l", "l", " ", "v", "e", "r", "d", "i", "c", "t", ":", " ">>

\* What a free-text answer is made of: a verdict line as the prompt asks for it,
\* and sentences of the oracle's own.
Phrases ==
  {VerdictPrefix \o v : v \in PromptVerdicts} \cup
  { <<"T", "h", "e", " ", "v", "i", "d", "e", "o", " ", "a", "p", "p", "e", "a", "r", "s", " ", "a", "u", "t", "h", "e", "n", "t", "i", "c">>,
    <<"t", "h", "e", " ", "f", "a", "c", "e", " ", "w", "a", "s", " ", "m", "a", "n", "i", "p", "u", "l", "a", "t", "e", "d">>,
    <<"S", "u", "s", "p", "i", "c", "i", "o", "u", "s", " ", "f", "l", "i", "c", "k", "e", "r">>,
    <<"n", "o", " ", "s", "i", "g", "n", "s", " ", "o", "f", " ", "m", "a", "n", "i", "p", "u", "l", "a", "t", "i", "o", "n">>,
    <<"H", "i", "g", "h", " ", "C", "o", "n", "f", "i", "d", "e", "n", "c", "e">>,
    <<"s", "i", "g", "n", "s", " ", "o", "f", " ", "m", "a", "n", "i", "p", "u", "l", "a", "t", "i", "o", "n">>,
    <<"F", "r", "a", "m", "e", " ", "3", " ", "i", "s", " ", "b", "l", "u", "r", "r", "y">> }

\* A free-text answer holds at most this many phrases.
MaxPhrases == 2

RECURSIVE TextsOfLen(_)
TextsOfLen(n) ==
  IF n <= 1
    THEN Phrases
    ELSE {t \o <<".", " ">> \o p : t \in TextsOfLen(n - 1), p \in Phrases}

Texts == UNION {TextsOfLen(n) : n \in 1..MaxPhrases}

\* ------------------------------------------------------- the oracle's reply
\* Scores in tenths, on both sides of the interpreter's thresholds.
ScoreGrid == {0, 39, 40, 59, 60, 70, 100}
OptScores == {Undef} \cup {Def(x) : x \in ScoreGrid}
Verdicts == {"AUTHENTIC", "SUSPICIOUS", "MANIPULATED"}

\* message.content by its JSON shape: an object with any of the asked-for fields,
\* null, another non-object JSON value, text that is not JSON, the empty string.
JsonObjects ==
  [kind : {"object"},
   mouth_score : OptScores, eyes_score : OptScores,
   boundary_score : OptScores, temporal_score : OptScores,
   verdict : {Undef} \cup {Def(v) : v \in Verdicts},
   key_evidence : {Undef, Def("teeth blurring")},
   detailed_analysis : {Def("scores explained")}]

EmptyObject ==
  [kind |-> "object", mouth_score |-> Undef, eyes_score |-> Undef,
   boundary_score |-> Undef, temporal_score |-> Undef, verdict |-> Undef,
   key_evidence |-> Undef, detailed_analysis |-> Undef]

Contents ==
  JsonObjects \cup {EmptyObject} \cup
  {[kind |-> "null"], [kind |-> "scalar"], [kind |-> "empty"]} \cup
  {[kind |-> "text", text |-> t] : t \in Texts}

Returned(c) == [outcome |-> "returned", content |-> c]
Threw == [outcome |-> "threw", message |-> "429 Rate limit exceeded"]

OracleReplies == {Threw} \cup {Returned(c) : c \in Contents}

\* The replies tried in a run of the whole page.
SampleReplies ==
  { Threw,
    Returned([kind |-> "object", mouth_score |-> Def(80), eyes_score |-> Def(70),
              boundary_score |-> Def(60), temporal_score |-> Def(90),
              verdict |-> Def("MANIPULATED"), key_evidence |-> Def("teeth blurring"),
              detailed_analysis |-> Def("scores explained")]),
    Returned(EmptyObject),
    Returned([kind |-> "null"]),
    Returned([kind |-> "empty"]),
    Returned([kind |-> "text", text |-> VerdictPrefix \o N_LIKELY_AUTHENTIC]) }

\* -------------------------------------------------------- pages/api/analyze.js
\* JSON.parse(analysisText): the parsed value, or a SyntaxError.
jsonParse(c) ==
  CASE c.kind = "object" -> [ok |-> TRUE, value |-> c]
    [] c.kind = "null"   -> [ok |-> TRUE, value |-> c]
    [] c.kind = "scalar" -> [ok |-> TRUE, value |-> c]
    [] OTHER             -> [ok |-> FALSE]

\* The characters of a content that is not JSON.
contentText(c) == IF c.kind = "text" THEN c.text ELSE <<>>

\* analysisData.<name>: undefined on a value that is no object.
property(v, name) == IF v.kind = "object" THEN v[name] ELSE Undef

\* (x || 0) for a score
orZero(x) == IF x = Undef \/ x = Def(0) THEN 0 ELSE x[1]

\* Math.round(avgScore * 10) / 10 in tenths, avgScore being sum/4 of scores in tenths.
roundedAverage(sum) == (sum + 2) \div 4

errorResponse(message) ==
  [status |-> 500, body |-> [error |-> "Analysis failed", message |-> message]]

handler(req, orc) ==
  IF req.method # "POST"
    THEN [status |-> 405, body |-> [error |-> "Method not allowed"]]
  ELSE IF req.frames = 0
    THEN [status |-> 400, body |-> [error |-> "No frames provided"]]
  ELSE IF orc.outcome = "threw"
    THEN errorResponse(orc.message)
  ELSE
    LET analysisText == orc.content
        parsed == jsonParse(analysisText)
    IN  IF ~parsed.ok
          THEN [status |-> 200,
                body |-> [success |-> TRUE, analysis |-> Def(contentText(analysisText)),
                          structured |-> FALSE, framesAnalyzed |-> req.frames]]
        ELSE IF parsed.value.kind = "null"
          THEN errorResponse("Cannot read properties of null")
        ELSE
          LET analysisData == parsed.value
              sum == orZero(property(analysisData, "mouth_score"))
                     + orZero(property(analysisData, "eyes_score"))
                     + orZero(property(analysisData, "boundary_score"))
                     + orZero(property(analysisData, "temporal_score"))
          IN  [status |-> 200,
               body |-> [success |-> TRUE, structured |-> TRUE,
                         scores |-> [mouth |-> property(analysisData, "mouth_score"),
                                     eyes |-> property(analysisData, "eyes_score"),
                                     boundary |-> property(analysisData, "boundary_score"),
                                     temporal |-> property(analysisData, "temporal_score"),
                                     average |-> Def(roundedAverage(sum))],
                         verdict |-> property(analysisData, "verdict"),
                         keyEvidence |-> property(analysisData, "key_evidence"),
                         analysis |-> property(analysisData, "detailed_analysis"),
                         framesAnalyzed |-> req.frames]]

\* Whether handler gets as far as the OpenAI call.
callsOracle(req) == req.method = "POST" /\ req.frames > 0

\* ------------------------------------------------------- lib/riskMapping.js
\* A faulty variant of the structured mapping with strict thresholds.
structuredRiskLevelStrict(avgScore, verdict) ==
  IF avgScore > 60 \/ verdict = Def("MANIPULATED") THEN "HIGH"
  ELSE IF avgScore > 40 \/ verdict = Def("SUSPICIOUS") THEN "MEDIUM"
  ELSE "LOW"

\* avgScore >= 6 || verdict === 'MANIPULATED', and so on; avgScore in tenths.
structuredRiskLevel(avgScore, verdict) ==
  IF avgScore >= 60 \/ verdict = Def("MANIPULATED") THEN "HIGH"
  ELSE IF avgScore >= 40 \/ verdict = Def("SUSPICIOUS") THEN "MEDIUM"
  ELSE "LOW"

\* A comparison with undefined is false: an absent average is below every threshold.
parseStructuredResponse(result) ==
  LET avgScore == IF result.scores.average = Undef THEN 0 - 1 ELSE result.scores.average[1]
  IN  [riskLevel |-> structuredRiskLevel(avgScore, result.verdict),
       scores |-> Def(result.scores),
       verdict |-> result.verdict,
       keyEvidence |-> result.keyEvidence]

\* A faulty variant of the free-text mapping that tests MANIPULATED ahead of
\* AUTHENTIC.
legacyRiskLevelManipulatedFirst(upper) ==
  IF includes(upper, N_LIKELY_MANIPULATED) \/ includes(upper, N_MANIPULATED) THEN "HIGH"
  ELSE IF includes(upper, N_LIKELY_AUTHENTIC) \/ includes(upper, N_AUTHENTIC) THEN "LOW"
  ELSE IF includes(upper, N_POSSIBLY_MANIPULATED) \/ includes(upper, N_SUSPICIOUS) THEN "MEDIUM"
  ELSE IF includes(upper, N_NO_SIGNS_OF_MANIPULATION) \/ includes(upper, N_APPEARS_AUTHENTIC)
    THEN "LOW"
  ELSE IF includes(upper, N_HIGH_CONFIDENCE) /\ includes(upper, N_MANIPULAT) THEN "HIGH"
  ELSE "MEDIUM"

\* The if/else-if chain over the upper-cased text.
legacyRiskLevel(upper) ==
  IF includes(upper, N_LIKELY_AUTHENTIC) \/ includes(upper, N_AUTHENTIC) THEN "LOW"
  ELSE IF includes(upper, N_LIKELY_MANIPULATED) \/ includes(upper, N_MANIPULATED) THEN "HIGH"
  ELSE IF includes(upper, N_POSSIBLY_MANIPULATED) \/ includes(upper, N_SUSPICIOUS) THEN "MEDIUM"
  ELSE IF includes(upper, N_NO_SIGNS_OF_MANIPULATION) \/ includes(upper, N_APPEARS_AUTHENTIC)
    THEN "LOW"
  ELSE IF includes(upper, N_HIGH_CONFIDENCE) /\ includes(upper, N_MANIPULAT) THEN "HIGH"
  ELSE "MEDIUM"

parseLegacyResponse(gptResponse) ==
  [riskLevel |-> legacyRiskLevel(toUpperCase(gptResponse)), scores |-> Undef]

\* result.structured && result.scores
isStructured(result) ==
  /\ "structured" \in DOMAIN result
  /\ result.structured
  /\ "scores" \in DOMAIN result

\* result.analysis && typeof result.analysis === 'string'
hasAnalysisText(result) ==
  /\ "analysis" \in DOMAIN result
  /\ result.analysis # Undef
  /\ result.analysis[1] # <<>>

\* riskInfo and rawAnalysis, which only pass texts on to the page, are left out.
parseAnalysisResponse(result) ==
  IF isStructured(result) THEN parseStructuredResponse(result)
  ELSE IF hasAnalysisText(result) THEN parseLegacyResponse(result.analysis[1])
  ELSE [riskLevel |-> "MEDIUM", scores |-> Undef]

getScoreSeverity(score) ==
  IF score < 40 THEN "low" ELSE IF score < 70 THEN "medium" ELSE "high"

descriptions ==
  [mouth |-> [low |-> "Natural lip and teeth appearance",
              medium |-> "Minor irregularities in mouth region",
              high |-> "Significant mouth artifacts detected"],
   eyes |-> [low |-> "Natural eye reflections and movement",
             medium |-> "Slight inconsistencies in eye region",
             high |-> "Eye region shows manipulation signs"],
   boundary |-> [low |-> "Clean face-to-background transition",
                 medium |-> "Minor boundary irregularities",
                 high |-> "Visible blending artifacts at face boundary"],
   temporal |-> [low |-> "Consistent frame-to-frame motion",
                 medium |-> "Some temporal inconsistencies",
                 high |-> "Significant temporal artifacts detected"]]

getScoreDescription(region, score) ==
  LET level == IF score < 40 THEN "low" ELSE IF score < 70 THEN "medium" ELSE "high"
  IN  descriptions[region][level]

SIGNAL_CATEGORIES ==
  [mouth |-> "Mouth Analysis", eyes |-> "Eye Analysis",
   boundary |-> "Face Boundary", temporal |-> "Temporal Consistency"]

\* if (scores.<region> !== undefined) signals.push({...})
regionSignal(scores, region) ==
  IF scores[region] = Undef
    THEN <<>>
    ELSE << [category |-> SIGNAL_CATEGORIES[region],
             signal |-> getScoreDescription(region, scores[region][1]),
             severity |-> getScoreSeverity(scores[region][1]),
             score |-> scores[region][1]] >>

\* A faulty variant of the Key Finding signal that always carries severity high.
keyFindingAlwaysHigh(result) ==
  IF result.keyEvidence = Undef \/ result.keyEvidence = Def("")
    THEN <<>>
    ELSE << [category |-> "Key Finding", signal |-> result.keyEvidence[1],
             severity |-> "high"] >>

\* if (keyEvidence) signals.unshift({...}): the empty string is falsy.
keyFinding(result) ==
  IF result.keyEvidence = Undef \/ result.keyEvidence = Def("")
    THEN <<>>
    ELSE << [category |-> "Key Finding",
             signal |-> result.keyEvidence[1],
             severity |-> IF result.riskLevel = "HIGH" THEN "high"
                          ELSE IF result.riskLevel = "MEDIUM" THEN "medium" ELSE "low"] >>

\* A faulty variant of the legacy signal that reports a MEDIUM level as low severity.
legacySignalDefaultLow(riskLevel) ==
  IF riskLevel = "HIGH"
    THEN [category |-> "Overall Analysis",
          signal |-> "Multiple manipulation indicators detected", severity |-> "high"]
  ELSE IF riskLevel = "LOW"
    THEN [category |-> "Overall Analysis",
          signal |-> "No significant manipulation indicators detected", severity |-> "low"]
  ELSE [category |-> "Overall Analysis",
        signal |-> "Some potential indicators detected - review recommended",
        severity |-> "low"]

\* The legacy fallback of extractSignals: one signal chosen by the level.
legacySignal(riskLevel) ==
  IF riskLevel = "LOW"
    THEN [category |-> "Overall Analysis",
          signal |-> "No significant manipulation indicators detected", severity |-> "low"]
  ELSE IF riskLevel = "HIGH"
    THEN [category |-> "Overall Analysis",
          signal |-> "Multiple manipulation indicators detected", severity |-> "high"]
  ELSE [category |-> "Overall Analysis",
        signal |-> "Some potential indicators detected - review recommended",
        severity |-> "medium"]

\* A faulty variant of extractSignals that collects into a list kept between calls.
extractSignalsShared(result) ==
  signals \o
    (IF "scores" \in DOMAIN result /\ result.scores # Undef
       THEN LET scores == result.scores[1]
            IN  keyFinding(result) \o regionSignal(scores, "mouth")
                  \o regionSignal(scores, "eyes") \o regionSignal(scores, "boundary")
                  \o regionSignal(scores, "temporal")
       ELSE << legacySignal(IF "riskLevel" \in DOMAIN result THEN result.riskLevel
                            ELSE "MEDIUM") >>)

\* const signals = []; ... ; a missing property reads as undefined, and
\* result.riskLevel || 'MEDIUM' stands in for a missing level.
extractSignals(result) ==
  IF "scores" \in DOMAIN result /\ result.scores # Undef
    THEN LET scores == result.scores[1]
         IN  keyFinding(result) \o regionSignal(scores, "mouth") \o regionSignal(scores, "eyes")
               \o regionSignal(scores, "boundary") \o regionSignal(scores, "temporal")
    ELSE << legacySignal(IF "riskLevel" \in DOMAIN result THEN result.riskLevel
                         ELSE "MEDIUM") >>

severityCount(sigs, severity) ==
  Cardinality({i \in DOMAIN sigs : sigs[i].severity = severity})

\* A faulty variant of calculateConfidence without the final clamps.
calculateConfidenceUnclamped(sigs, frameCount, scores) ==
  IF scores # Undef
    THEN LET average == scores[1].average
             avgScore == IF average = Undef \/ average = Def(0) THEN 50 ELSE average[1]
         IN  Min(950, 500 + avgScore * 5) + Min(200, frameCount * 8) + Abs(avgScore - 50) * 3
    ELSE 10 * (Min(50 + frameCount * 3, 70)
                 + (severityCount(sigs, "high") + severityCount(sigs, "low")) * 5
                 - severityCount(sigs, "medium") * 3)

\* A faulty variant of calculateConfidence whose legacy branch leaves the medium
\* signals out.
calculateConfidenceIgnoringMedium(sigs, frameCount, scores) ==
  IF scores # Undef
    THEN LET average == scores[1].average
             avgScore == IF average = Undef \/ average = Def(0) THEN 50 ELSE average[1]
         IN  Min(950, Max(300, Min(950, 500 + avgScore * 5) + Min(200, frameCount * 8)
                                 + Abs(avgScore - 50) * 3))
    ELSE 10 * Max(30, Min(95, Min(50 + frameCount * 3, 70)
                 + (severityCount(sigs, "high") + severityCount(sigs, "low")) * 5))

\* calculateConfidence, in tenths of a point
calculateConfidence(sigs, frameCount, scores) ==
  IF scores # Undef
    THEN LET average == scores[1].average
             avgScore == IF average = Undef \/ average = Def(0) THEN 50 ELSE average[1]
             scoreConfidence == Min(950, 500 + avgScore * 5)
             frameBonus == Min(200, frameCount * 8)
             scoreVariance == Abs(avgScore - 50)
             certaintyBonus == scoreVariance * 3
         IN  Min(950, Max(300, scoreConfidence + frameBonus + certaintyBonus))
    ELSE LET base == Min(50 + frameCount * 3, 70)
             clear == severityCount(sigs, "high") + severityCount(sigs, "low")
             unsure == severityCount(sigs, "medium")
         IN  10 * Max(30, Min(95, base + clear * 5 - unsure * 3))

\* The results view: the interpreter applied to an endpoint result.
interpret(result) ==
  LET parsed == parseAnalysisResponse(result)
      sigs == extractSignals(parsed)
      frameCount == IF "framesAnalyzed" \in DOMAIN result THEN result.framesAnalyzed ELSE 0
  IN  [assessment |-> parsed, signals |-> sigs,
       confidence |-> calculateConfidence(sigs, frameCount, parsed.scores)]

\* ------------------------------------------------------------- requests
NoRequest == [method |-> "none", frames |-> 0]
NoOracle == [outcome |-> "none"]
NoResponse == [status |-> 0, body |-> [error |-> "none"]]
NoResult == [stored |-> FALSE]
NoAssessment == [riskLevel |-> "none"]

FreshSampler ==
  /\ promise' = "pending"
  /\ objectUrl' = "live"
  /\ videoState' = "loading"
  /\ duration' = 0
  /\ pendingSeeks' = <<>>
  /\ issuedSeeks' = <<>>
  /\ segmentTimestamps' = <<>>
  /\ attemptsUsed' = <<>>
  /\ currentSegment' = 0
  /\ currentFrameInSegment' = 0
  /\ allFrames' = <<>>
  /\ fault' = "none"

\* ------------------------------------------------------------------ Home
Init ==
  /\ variant \in {"random", "fixed"}
  /\ file = FALSE
  /\ loading = FALSE
  /\ error = Null
  /\ percent = 0
  /\ pc = "idle"
  /\ promise = "none"
  /\ objectUrl = "none"
  /\ videoState = "none"
  /\ duration = 0
  /\ pendingSeeks = <<>>
  /\ issuedSeeks = <<>>
  /\ segmentTimestamps = <<>>
  /\ attemptsUsed = <<>>
  /\ currentSegment = 0
  /\ currentFrameInSegment = 0
  /\ allFrames = <<>>
  /\ fault = "none"
  /\ request = NoRequest
  /\ oracle = NoOracle
  /\ response = NoResponse
  /\ analysisResult = NoResult
  /\ route = "/"
  /\ assessment = NoAssessment
  /\ signals = <<>>
  /\ confidence = 0
  /\ callLog = <<>>

\* handleFileSelect / handleDrop; the loading overlay covers the page while loading.
HandleFileSelect ==
  /\ ~loading
  /\ route = "/"
  /\ \E isVideo \in BOOLEAN :
       IF isVideo
         THEN /\ file' = TRUE
              /\ error' = Null
         ELSE /\ error' = "Please upload a valid video file"
              /\ UNCHANGED file
  /\ UNCHANGED <<variant, loading, percent, pc, samplerVars, serverVars, resultVars, interpVars>>

\* handleAnalyze up to its first await: the button is disabled unless a file is
\* selected and nothing is loading; extractFrames creates the video element and
\* assigns video.src = URL.createObjectURL(videoFile).
HandleAnalyze ==
  /\ file
  /\ ~loading
  /\ route = "/"
  /\ pc = "idle"
  /\ loading' = TRUE
  /\ error' = Null
  /\ percent' = 5
  /\ pc' = "awaitFrames"
  /\ FreshSampler
  /\ request' = NoRequest
  /\ oracle' = NoOracle
  /\ response' = NoResponse
  /\ UNCHANGED <<variant, file, resultVars, interpVars>>

\* video.onloadedmetadata: place the segments, then captureFrame().
OnLoadedMetadata ==
  /\ videoState = "loading"
  /\ \E d \in Durations, stream \in Streams :
       LET p == placement(d, stream)
       IN  /\ duration' = d
           /\ segmentTimestamps' = p.timestamps
           /\ attemptsUsed' = p.attempts
           /\ captureFrame(p.timestamps, currentSegment, currentFrameInSegment, pendingSeeks)
  /\ UNCHANGED <<currentSegment, currentFrameInSegment, allFrames, fault>>
  /\ UNCHANGED <<homeVars, serverVars, resultVars, interpVars>>

\* video.onseeked: draw the frame, append it, report progress, advance, captureFrame().
OnSeeked ==
  /\ videoState = "seeking"
  /\ pendingSeeks # <<>>
  /\ LET frame == [timestamp |-> seekPosition(Head(pendingSeeks)),
                   segment |-> currentSegment + 1,
                   frameInSegment |-> currentFrameInSegment + 1]
         completedFrames == currentSegment * framesPerSegment + currentFrameInSegment + 1
         next == nextPosition(currentSegment, currentFrameInSegment)
     IN  /\ allFrames' = Append(allFrames, frame)
         /\ percent' = progressPercent(completedFrames)
         /\ currentSegment' = next[1]
         /\ currentFrameInSegment' = next[2]
         /\ captureFrame(segmentTimestamps, next[1], next[2], Tail(pendingSeeks))
  /\ UNCHANGED <<duration, segmentTimestamps, attemptsUsed, fault>>
  /\ UNCHANGED <<variant, file, loading, error, pc, serverVars, resultVars, interpVars>>

\* video.onseeked when drawing or encoding the frame throws: the handler is left at
\* the throw, before allFrames.push; nothing catches it.
OnSeekedRenderThrows ==
  /\ videoState = "seeking"
  /\ pendingSeeks # <<>>
  /\ pendingSeeks' = Tail(pendingSeeks)
  /\ videoState' = "idle"
  /\ fault' = "render_threw"
  /\ UNCHANGED <<promise, objectUrl, duration, issuedSeeks, segmentTimestamps, attemptsUsed,
                 currentSegment, currentFrameInSegment, allFrames>>
  /\ UNCHANGED <<homeVars, serverVars, resultVars, interpVars>>

\* The browser never completes the seek: no seeked and no error event follows.
SeekNeverCompletes ==
  /\ videoState = "seeking"
  /\ pendingSeeks # <<>>
  /\ videoState' = "stalled"
  /\ fault' = "seek_stalled"
  /\ UNCHANGED <<promise, objectUrl, duration, pendingSeeks, issuedSeeks, segmentTimestamps,
                 attemptsUsed,
                 currentSegment, currentFrameInSegment, allFrames>>
  /\ UNCHANGED <<homeVars, serverVars, resultVars, interpVars>>

\* video.onerror: the media fails to load, or to decode at a seek.
OnError ==
  /\ videoState \in {"loading", "seeking"}
  /\ fault' = IF videoState = "loading" THEN "load_error" ELSE "seek_error"
  /\ videoState' = "error"
  /\ pendingSeeks' = <<>>
  /\ objectUrl' = "revoked"
  /\ promise' = IF promise = "pending" THEN "rejected" ELSE promise
  /\ UNCHANGED <<duration, issuedSeeks, segmentTimestamps, attemptsUsed,
                 currentSegment, currentFrameInSegment, allFrames>>
  /\ UNCHANGED <<homeVars, serverVars, resultVars, interpVars>>

\* handleAnalyze after await extractFrames(file) resolved: progress 40, fetch.
AwaitFramesResolved ==
  /\ pc = "awaitFrames"
  /\ promise = "resolved"
  /\ percent' = 40
  /\ pc' = "awaitFetch"
  /\ request' = [method |-> "POST", frames |-> Len(allFrames)]
  /\ UNCHANGED <<variant, file, loading, error, oracle, response>>
  /\ UNCHANGED <<samplerVars, resultVars, interpVars>>

\* The rejection left unhandled: the run goes on to the endpoint with the frames so far.
AwaitFramesRejectedUncaught ==
  /\ pc = "awaitFrames"
  /\ promise = "rejected"
  /\ percent' = 40
  /\ pc' = "awaitFetch"
  /\ request' = [method |-> "POST", frames |-> Len(allFrames)]
  /\ UNCHANGED <<variant, file, loading, error, oracle, response>>
  /\ UNCHANGED <<samplerVars, resultVars, interpVars>>

\* handleAnalyze's catch after extractFrames rejected.
AwaitFramesRejected ==
  /\ pc = "awaitFrames"
  /\ promise = "rejected"
  /\ error' = "Failed to load video file"
  /\ loading' = FALSE
  /\ pc' = "idle"
  /\ UNCHANGED <<variant, file, percent>>
  /\ UNCHANGED <<samplerVars, serverVars, resultVars, interpVars>>

\* The endpoint handles the request in flight; the oracle's reply, one of replies,
\* is the environment's.
Handle(replies) ==
  /\ request.method # "none"
  /\ response.status = 0
  /\ \E orc \in replies :
       /\ oracle' = IF callsOracle(request) THEN orc ELSE NoOracle
       /\ response' = handler(request, orc)
  /\ UNCHANGED request
  /\ UNCHANGED <<homeVars, samplerVars, resultVars, interpVars>>

\* fetch rejects: the request never reaches the endpoint.
FetchRejects ==
  /\ pc = "awaitFetch"
  /\ request.method # "none"
  /\ response.status = 0
  /\ request' = NoRequest
  /\ error' = "Failed to fetch"
  /\ loading' = FALSE
  /\ pc' = "idle"
  /\ UNCHANGED <<variant, file, percent, oracle, response>>
  /\ UNCHANGED <<samplerVars, resultVars, interpVars>>

\* A faulty variant of response.ok that accepts every status.
responseOkAlways(status) == status >= 0

\* response.ok
responseOk(status) == status >= 200 /\ status <= 299

\* errorData.message || 'Analysis failed'
errorMessage(body) ==
  IF "message" \in DOMAIN body /\ body.message # "" THEN body.message ELSE "Analysis failed"

\* handleAnalyze after await fetch: progress 80; an error answer is thrown to the
\* catch; otherwise progress 100, the result is stored and the router pushed.
OnResponse ==
  /\ pc = "awaitFetch"
  /\ response.status # 0
  /\ IF ~responseOk(response.status)
       THEN /\ percent' = 80
            /\ error' = errorMessage(response.body)
            /\ loading' = FALSE
            /\ pc' = "idle"
            /\ UNCHANGED <<analysisResult, route>>
       ELSE /\ percent' = 100
            /\ analysisResult' = [stored |-> TRUE, result |-> response.body,
                                  frames |-> Len(allFrames)]
            /\ route' = "/results"
            /\ pc' = "navigated"
            /\ UNCHANGED <<error, loading>>
  /\ UNCHANGED <<variant, file, samplerVars, serverVars, interpVars>>

\* The results view reads the stored result and interprets it.
ViewResults ==
  /\ route = "/results"
  /\ analysisResult.stored
  /\ assessment = NoAssessment
  /\ LET r == interpret(analysisResult.result)
     IN  /\ assessment' = r.assessment
         /\ signals' = r.signals
         /\ confidence' = r.confidence
         /\ callLog' = Append(callLog, [input |-> analysisResult.result, output |-> r])
  /\ UNCHANGED <<homeVars, samplerVars, serverVars, resultVars>>

\* The interpreter applied to the endpoint's answer.
Interpret ==
  /\ response.status = 200
  /\ assessment = NoAssessment
  /\ LET r == interpret(response.body)
     IN  /\ assessment' = r.assessment
         /\ signals' = r.signals
         /\ confidence' = r.confidence
         /\ callLog' = Append(callLog, [input |-> response.body, output |-> r])
  /\ UNCHANGED <<homeVars, samplerVars, serverVars, resultVars>>

Next ==
  \/ HandleFileSelect
  \/ HandleAnalyze
  \/ OnLoadedMetadata
  \/ OnSeeked
  \/ OnSeekedRenderThrows
  \/ SeekNeverCompletes
  \/ OnError
  \/ AwaitFramesResolved
  \/ AwaitFramesRejected
  \/ Handle(SampleReplies)
  \/ FetchRejects
  \/ OnResponse
  \/ ViewResults

Spec == Init /\ [][Next]_vars

\* ------------------------------------------- the endpoint and the interpreter
\* Any caller may send the endpoint a request.
Requests ==
  {[method |-> "GET", frames |-> 0], [method |-> "POST", frames |-> 0],
   [method |-> "POST", frames |-> 24]}

IdleHome ==
  /\ variant = "fixed"
  /\ file = FALSE
  /\ loading = FALSE
  /\ error = Null
  /\ percent = 0
  /\ pc = "idle"
  /\ promise = "none"
  /\ objectUrl = "none"
  /\ videoState = "none"
  /\ duration = 0
  /\ pendingSeeks = <<>>
  /\ issuedSeeks = <<>>
  /\ segmentTimestamps = <<>>
  /\ attemptsUsed = <<>>
  /\ currentSegment = 0
  /\ currentFrameInSegment = 0
  /\ allFrames = <<>>
  /\ fault = "none"
  /\ analysisResult = NoResult
  /\ route = "/"
  /\ assessment = NoAssessment
  /\ signals = <<>>
  /\ confidence = 0
  /\ callLog = <<>>

InitInterp ==
  /\ IdleHome
  /\ request \in Requests
  /\ oracle = NoOracle
  /\ response = NoResponse

NextInterp ==
  \/ Handle(OracleReplies)
  \/ Interpret

SpecInterp == InitInterp /\ [][NextInterp]_vars

\* ------------------------------------------------ the interpreter on its own
\* Endpoint results handed to the interpreter: a structured result for every
\* average from 0.0 to 10.0 and every verdict, and a free-text result for every
\* text.
Averages == 0..(10 * 10)
FrameCounts == {0, 6, 24, 45}

StructuredResults ==
  {[success |-> TRUE, structured |-> TRUE,
    scores |-> [mouth |-> Def(a), eyes |-> Def(a), boundary |-> Def(a),
                temporal |-> Def(a), average |-> Def(a)],
    verdict |-> v, keyEvidence |-> k, analysis |-> Def("scores explained"),
    framesAnalyzed |-> n] :
     a \in Averages, v \in {Undef} \cup {Def(x) : x \in Verdicts},
     k \in {Undef, Def(""), Def("teeth blurring")}, n \in FrameCounts}

FreeTextResults ==
  {[success |-> TRUE, analysis |-> Def(t), framesAnalyzed |-> n] :
     t \in Texts, n \in FrameCounts}

\* Results with no scores and no text to read: no analysis, or an empty one.
TextlessResults ==
  {[success |-> TRUE, framesAnalyzed |-> n] : n \in FrameCounts} \cup
  {[success |-> TRUE, analysis |-> Def(<<>>), framesAnalyzed |-> n] : n \in FrameCounts}

InitParse ==
  /\ IdleHome
  /\ request = NoRequest
  /\ oracle = NoOracle
  /\ \E result \in StructuredResults \cup FreeTextResults \cup TextlessResults :
       response = [status |-> 200, body |-> result]

\* extractSignals applied to a result that parseAnalysisResponse has not seen: it
\* has no riskLevel.
ExtractSignalsUnparsed ==
  /\ response.status = 200
  /\ ~isStructured(response.body)
  /\ assessment = NoAssessment
  /\ signals = <<>>
  /\ signals' = extractSignals(response.body)
  /\ callLog' = Append(callLog, [input |-> response.body, output |-> signals'])
  /\ UNCHANGED <<assessment, confidence>>
  /\ UNCHANGED <<homeVars, samplerVars, serverVars, resultVars>>

NextParse ==
  \/ Interpret
  \/ ExtractSignalsUnparsed

SpecParse == InitParse /\ [][NextParse]_vars

\* ================================================================ claims

\* C1: whenever a sampling call resolves, the returned frame list has exactly
\* segments x framesPerSegment entries: 45 in the random-segment sampler, 24 in
\* the fixed-fraction sampler.
C1_FrameCount ==
  promise = "resolved" =>
    /\ variant = "random" => Len(allFrames) = 45
    /\ variant = "fixed" => Len(allFrames) = 24

C1_Witness ==
  promise = "resolved" /\ variant = "random" /\ Len(allFrames) = 45

\* C2: in the fixed-fraction sampler, for every duration, every segment start is
\* non-negative and start + segmentDuration <= duration.
C2_FixedStartsInRange ==
  (variant = "fixed" /\ segmentTimestamps # <<>>) =>
    \A i \in DOMAIN segmentTimestamps :
      /\ segmentTimestamps[i] >= 0
      /\ segmentTimestamps[i] + Sec(1) <= duration

\* C3: in the random-segment sampler either every two segment starts differ by
\* at least segmentDuration + 1 = 3 s, or the result is the even-spacing fallback.
C3_NoSilentOverlap ==
  (variant = "random" /\ segmentTimestamps # <<>>) =>
    \/ \A i, j \in DOMAIN segmentTimestamps :
         i # j => Abs(segmentTimestamps[i] - segmentTimestamps[j]) >= Sec(3)
    \/ \A i \in DOMAIN segmentTimestamps :
         segmentTimestamps[i]
           = safeStart(duration) + ((i - 1) * usableDuration(duration)) \div 3

\* C4: on every exit path of a sampling call (all frames captured, the video
\* failed to load, a frame's seek or render failed or never completes) the
\* object URL has been released.
C4_UrlReleasedOnEveryExit ==
  (promise \in {"resolved", "rejected"} \/ fault \in {"seek_stalled", "render_threw"})
    => objectUrl = "revoked"

\* C5: if the seek or render of a frame fails, the sampling call ends rejected:
\* it neither resolves nor stays pending.
C5_FrameFailureRejects ==
  fault \in {"seek_error", "seek_stalled", "render_threw"} => promise = "rejected"

\* C6: when the oracle call fails, the endpoint answers with an error status, no
\* analysis result is stored, the page does not navigate, no risk level is
\* produced, and the step that takes the answer leaves an error message shown.
C6_OracleFailureSurfaced ==
  /\ [](oracle.outcome = "threw" =>
          /\ response.status >= 400
          /\ ~analysisResult.stored
          /\ route = "/"
          /\ assessment = NoAssessment)
  /\ [][(oracle.outcome = "threw" /\ pc = "awaitFetch" /\ pc' # "awaitFetch") =>
          (pc' = "idle" /\ error' # Null /\ ~loading')]_vars

C6_Witness ==
  /\ oracle.outcome = "threw"
  /\ response.status = 500
  /\ pc = "idle"
  /\ error = "429 Rate limit exceeded"
  /\ ~loading

\* C7: when the oracle's answer is malformed (an object without scores and
\* verdict, a JSON value that is no object, text that is not JSON, empty content)
\* the endpoint answers 200 and the interpreter's assessment is MEDIUM with one
\* generic signal.
C7_Malformed(c) ==
  c = EmptyObject \/ c.kind \in {"null", "scalar", "text", "empty"}

C7_MalformedGivesMedium ==
  ( /\ oracle.outcome = "returned"
    /\ C7_Malformed(oracle.content)
    /\ (response.status # 200 \/ assessment # NoAssessment) ) =>
      /\ response.status = 200
      /\ assessment.riskLevel = "MEDIUM"
      /\ Len(signals) = 1
      /\ signals[1].category = "Overall Analysis"

\* C8: on the structured path the level is HIGH when average >= 6 or the verdict
\* is MANIPULATED, otherwise MEDIUM when average >= 4 or the verdict is
\* SUSPICIOUS, otherwise LOW; AUTHENTIC never lowers the level of the average.
C8_StructuredLevels ==
  (assessment # NoAssessment /\ isStructured(response.body)) =>
    LET a == response.body.scores.average[1]
        v == response.body.verdict
        high == a >= 60 \/ v = Def("MANIPULATED")
        medium == a >= 40 \/ v = Def("SUSPICIOUS")
    IN  /\ assessment.riskLevel = "HIGH" <=> high
        /\ assessment.riskLevel = "MEDIUM" <=> (~high /\ medium)
        /\ assessment.riskLevel = "LOW" <=> (~high /\ ~medium)
        /\ (v = Def("AUTHENTIC") /\ a >= 60) => assessment.riskLevel = "HIGH"
        /\ (v = Def("AUTHENTIC") /\ a >= 40 /\ a < 60) => assessment.riskLevel = "MEDIUM"

C8_Witness ==
  /\ assessment # NoAssessment
  /\ isStructured(response.body)
  /\ response.body.scores.average = Def(60)
  /\ response.body.verdict = Def("AUTHENTIC")
  /\ assessment.riskLevel = "HIGH"

\* C9: on the free-text path the level is decided by a case-insensitive,
\* priority-ordered substring test: "authentic" gives LOW; otherwise
\* "manipulated" gives HIGH; otherwise "suspicious" gives MEDIUM; otherwise "no
\* signs of manipulation" gives LOW; otherwise "high confidence" together with
\* "manipulat" gives HIGH; otherwise MEDIUM.
C9_lowerChar(c) ==
  IF \E k \in DOMAIN UpperChars : UpperChars[k] = c
    THEN LowerChars[CHOOSE k \in DOMAIN UpperChars : UpperChars[k] = c]
    ELSE c

C9_contains(text, word) ==
  \E i \in 0..(Len(text) - Len(word)) :
    \A k \in 1..Len(word) : C9_lowerChar(text[i + k]) = word[k]

C9_authentic == <<"a", "u", "t", "h", "e", "n", "t", "i", "c">>
C9_manipulated == <<"m", "a", "n", "i", "p", "u", "l", "a", "t", "e", "d">>
C9_suspicious == <<"s", "u", "s", "p", "i", "c", "i", "o", "u", "s">>
C9_no_signs ==
  <<"n", "o", " ", "s", "i", "g", "n", "s", " ", "o", "f", " ", "m", "a", "n", "i", "p", "u", "l", "a", "t", "i", "o", "n">>
C9_high_confidence ==
  <<"h", "i", "g", "h", " ", "c", "o", "n", "f", "i", "d", "e", "n", "c", "e">>
C9_manipulat == <<"m", "a", "n", "i", "p", "u", "l", "a", "t">>

C9_Level(text) ==
  CASE C9_contains(text, C9_authentic) -> "LOW"
    [] ~C9_contains(text, C9_authentic) /\ C9_contains(text, C9_manipulated) -> "HIGH"
    [] OTHER ->
         IF C9_contains(text, C9_suspicious) THEN "MEDIUM"
         ELSE IF C9_contains(text, C9_no_signs) THEN "LOW"
         ELSE IF C9_contains(text, C9_high_confidence) /\ C9_contains(text, C9_manipulat)
           THEN "HIGH"
         ELSE "MEDIUM"

C9_FreeTextPath ==
  assessment # NoAssessment /\ ~isStructured(response.body) /\ hasAnalysisText(response.body)

C9_LegacyPriority ==
  C9_FreeTextPath => assessment.riskLevel = C9_Level(response.body.analysis[1])

\* A text with "manipulated" ahead of "LIKELY AUTHENTIC" resolved to LOW.
C9_Witness ==
  /\ C9_FreeTextPath
  /\ response.body.analysis[1]
       = <<"t", "h", "e", " ", "f", "a", "c", "e", " ", "w", "a", "s", " ", "m", "a", "n", "i", "p", "u", "l", "a", "t", "e", "d">>
         \o <<".", " ">> \o VerdictPrefix \o N_LIKELY_AUTHENTIC
  /\ assessment.riskLevel = "LOW"

\* C10: each overall verdict the free-text prompt asks for maps to its own level:
\* LIKELY AUTHENTIC to LOW, POSSIBLY MANIPULATED to MEDIUM, LIKELY MANIPULATED to
\* HIGH (the last two for a text with no authentic phrase).
C10_VerdictIs(text, v) ==
  /\ includes(text, v)
  /\ \A w \in PromptVerdicts \ {v} : ~includes(text, w)

C10_PromptVerdictLevels ==
  C9_FreeTextPath =>
    LET text == response.body.analysis[1]
    IN  /\ C10_VerdictIs(text, N_LIKELY_AUTHENTIC) => assessment.riskLevel = "LOW"
        /\ (C10_VerdictIs(text, N_POSSIBLY_MANIPULATED) /\ ~C9_contains(text, C9_authentic))
             => assessment.riskLevel = "MEDIUM"
        /\ (C10_VerdictIs(text, N_LIKELY_MANIPULATED) /\ ~C9_contains(text, C9_authentic))
             => assessment.riskLevel = "HIGH"

\* C11: within one sampling call at most one seek is outstanding at any time; a
\* seek is issued only once every earlier seek has completed and its frame has
\* been appended, so the i-th frame appended is the frame of the i-th seek issued.
C11_SequentialSeeks ==
  /\ Len(pendingSeeks) <= 1
  /\ Len(issuedSeeks) <= Len(allFrames) + 1
  /\ fault = "none" => Len(issuedSeeks) = Len(allFrames) + Len(pendingSeeks)
  /\ Len(allFrames) <= Len(issuedSeeks)
  /\ \A i \in 1..Min(Len(allFrames), Len(issuedSeeks)) :
       /\ issuedSeeks[i]
            = segmentTimestamps[allFrames[i].segment]
                + (allFrames[i].frameInSegment - 1) * frameInterval
       /\ allFrames[i].timestamp = Max(0, Min(issuedSeeks[i], duration))

C11_Witness ==
  /\ Len(allFrames) = 10
  /\ Len(issuedSeeks) = 11
  /\ pendingSeeks = <<issuedSeeks[11]>>
  /\ videoState = "seeking"

\* C12: in every resolved frame list the frames of a segment are contiguous with
\* strictly increasing requested timestamps, and segment k+1 never starts before
\* segment k, in both samplers and both of their branches.
C12_FramesOrdered ==
  promise = "resolved" =>
    /\ \A i \in 1..(Len(allFrames) - 1) :
         \/ /\ allFrames[i + 1].segment = allFrames[i].segment
            /\ allFrames[i + 1].frameInSegment = allFrames[i].frameInSegment + 1
            /\ issuedSeeks[i] < issuedSeeks[i + 1]
         \/ /\ allFrames[i + 1].segment = allFrames[i].segment + 1
            /\ allFrames[i + 1].frameInSegment = 1
    /\ \A k \in 1..(Len(segmentTimestamps) - 1) :
         segmentTimestamps[k] <= segmentTimestamps[k + 1]

\* --------------------------------------------- calculateConfidence on its own
\* The arguments of a call: a list of up to MaxSignals signals of any severities
\* (the function counts them by severity, so one order and its reverse stand for
\* every order), a frame count, and the scores of a structured assessment or none.
MaxSignals == 8
MaxFrameCount == 30

signalOf(severity) ==
  [category |-> "Overall Analysis", signal |-> "indicator", severity |-> severity]

repeated(sig, n) == [i \in 1..n |-> sig]

reversed(seq) == [i \in 1..Len(seq) |-> seq[Len(seq) + 1 - i]]

SignalLists ==
  LET ordered ==
        {repeated(signalOf("high"), h) \o repeated(signalOf("medium"), m)
           \o repeated(signalOf("low"), l) :
             <<h, m, l>> \in {c \in (0..MaxSignals) \X (0..MaxSignals) \X (0..MaxSignals) :
                               c[1] + c[2] + c[3] <= MaxSignals}}
  IN  ordered \cup {reversed(seq) : seq \in ordered}

ScoresWithAverage(average) ==
  [mouth |-> average, eyes |-> average, boundary |-> average, temporal |-> average,
   average |-> average]

ConfidenceArgs ==
  {[signals |-> <<>>, frameCount |-> n, scores |-> Def(ScoresWithAverage(avg))] :
     n \in 0..MaxFrameCount, avg \in {Undef} \cup {Def(x) : x \in Averages}}
  \cup
  {[signals |-> sigs, frameCount |-> n, scores |-> Undef] :
     sigs \in SignalLists, n \in 0..MaxFrameCount}

InitConfidence ==
  /\ IdleHome
  /\ request = NoRequest
  /\ oracle = NoOracle
  /\ response = NoResponse

CallConfidence ==
  /\ callLog = <<>>
  /\ \E args \in ConfidenceArgs :
       LET result == calculateConfidence(args.signals, args.frameCount, args.scores)
       IN  /\ confidence' = result
           /\ callLog' = <<[input |-> args, output |-> result]>>
  /\ UNCHANGED <<assessment, signals>>
  /\ UNCHANGED <<homeVars, samplerVars, serverVars, resultVars>>

NextConfidence == CallConfidence

SpecConfidence == InitConfidence /\ [][NextConfidence]_vars

\* C13: calculateConfidence returns a value in [30, 95] for every input: with
\* scores for every average (0 and a missing average included) and every frame
\* count, without scores for every frame count and every list of signals.
C13_ConfidenceInRange ==
  \A i \in DOMAIN callLog : callLog[i].output >= 300 /\ callLog[i].output <= 950

\* The clamps act: eight clear signals would give 70 + 40, eight medium ones 50 - 24.
C13_Witness ==
  /\ Len(callLog) = 1
  /\ callLog[1].input.scores = Undef
  /\ callLog[1].input.frameCount = 0
  /\ Len(callLog[1].input.signals) = 8
  /\ \A k \in 1..8 : callLog[1].input.signals[k].severity = "medium"
  /\ callLog[1].output = 300

\* C14: with scores, for every average a in 0..10 (a = 0 included) and every frame
\* count n, calculateConfidence returns
\* clamp(30, 95, min(95, 50 + 5a) + min(20, 0.8 n) + 3 |a - 5|).
C14_StructuredFormula ==
  \A i \in DOMAIN callLog :
    LET in == callLog[i].input
    IN  (in.scores # Undef /\ in.scores[1].average # Undef) =>
          LET a == in.scores[1].average[1]
              n == in.frameCount
              sum == (IF 500 + 5 * a < 950 THEN 500 + 5 * a ELSE 950)
                       + (IF 8 * n < 200 THEN 8 * n ELSE 200)
                       + 3 * (IF a >= 50 THEN a - 50 ELSE 50 - a)
          IN  callLog[i].output
                = IF sum < 300 THEN 300 ELSE IF sum > 950 THEN 950 ELSE sum

\* C15: without scores, for every frame count n and every signal list,
\* calculateConfidence returns clamp(30, 95, min(70, 50 + 3n) + 5 (high + low)
\* - 3 medium); a single low or high signal with n = 6 gives 73, a single medium
\* one 65.
C15_Count(sigs, severity) ==
  Cardinality({k \in 1..Len(sigs) : sigs[k].severity = severity})

C15_LegacyFormula ==
  \A i \in DOMAIN callLog :
    LET in == callLog[i].input
    IN  in.scores = Undef =>
          LET n == in.frameCount
              sum == (IF 50 + 3 * n < 70 THEN 50 + 3 * n ELSE 70)
                       + 5 * (C15_Count(in.signals, "high") + C15_Count(in.signals, "low"))
                       - 3 * C15_Count(in.signals, "medium")
              single == Len(in.signals) = 1 /\ n = 6
          IN  /\ callLog[i].output
                   = 10 * (IF sum < 30 THEN 30 ELSE IF sum > 95 THEN 95 ELSE sum)
              /\ (single /\ in.signals[1].severity \in {"low", "high"})
                   => callLog[i].output = 730
              /\ (single /\ in.signals[1].severity = "medium") => callLog[i].output = 650

C15_Witness ==
  /\ Len(callLog) = 1
  /\ callLog[1].input.scores = Undef
  /\ callLog[1].input.frameCount = 6
  /\ Len(callLog[1].input.signals) = 1
  /\ callLog[1].input.signals[1].severity = "medium"
  /\ callLog[1].output = 650

\* C16: on the structured path extractSignals produces exactly one signal for
\* each of the four regions, in the order mouth, eyes, boundary, temporal, with
\* severity low for a score below 4, medium below 7 and high otherwise, and with
\* the canned description of that region and severity.
C16_Regions == <<"mouth", "eyes", "boundary", "temporal">>

C16_RegionSignals ==
  (assessment # NoAssessment /\ isStructured(response.body)) =>
    LET regional == SelectSeq(signals, LAMBDA sig : sig.category # "Key Finding")
    IN  /\ Len(regional) = 4
        /\ \A k \in 1..4 :
             LET region == C16_Regions[k]
                 score == response.body.scores[region][1]
                 severity == IF score < 40 THEN "low"
                             ELSE IF score < 70 THEN "medium" ELSE "high"
             IN  /\ regional[k].category = SIGNAL_CATEGORIES[region]
                 /\ regional[k].severity = severity
                 /\ regional[k].signal = descriptions[region][severity]

\* C17: on the structured path, when key evidence is present, the signals of the
\* assessment start with a "Key Finding" signal carrying the evidence text, with
\* severity high, medium or low as the risk level is HIGH, MEDIUM or LOW; when
\* it is absent (or the empty text) there is no such signal.
C17_KeyFindingFirst ==
  (assessment # NoAssessment /\ isStructured(response.body)) =>
    LET evidence == response.body.keyEvidence
        keyFindings == {i \in DOMAIN signals : signals[i].category = "Key Finding"}
    IN  IF evidence # Undef /\ evidence # Def("")
          THEN /\ keyFindings = {1}
               /\ signals[1].signal = evidence[1]
               /\ signals[1].severity
                    = CASE assessment.riskLevel = "HIGH" -> "high"
                        [] assessment.riskLevel = "MEDIUM" -> "medium"
                        [] assessment.riskLevel = "LOW" -> "low"
          ELSE keyFindings = {}

C17_Witness ==
  /\ assessment # NoAssessment
  /\ isStructured(response.body)
  /\ response.body.scores.average = Def(75)
  /\ response.body.framesAnalyzed = 24
  /\ response.body.keyEvidence = Def("teeth blurring")
  /\ assessment.riskLevel = "HIGH"
  /\ Len(signals) = 5
  /\ signals[1] = [category |-> "Key Finding", signal |-> "teeth blurring", severity |-> "high"]

\* C18: without scores extractSignals returns exactly one signal, of category
\* "Overall Analysis", whose text and severity are decided by the risk level
\* alone, a missing level counting as MEDIUM.
C18_SignalOf(level) ==
  CASE level = "LOW" ->
         [category |-> "Overall Analysis",
          signal |-> "No significant manipulation indicators detected", severity |-> "low"]
    [] level = "HIGH" ->
         [category |-> "Overall Analysis",
          signal |-> "Multiple manipulation indicators detected", severity |-> "high"]
    [] level = "MEDIUM" ->
         [category |-> "Overall Analysis",
          signal |-> "Some potential indicators detected - review recommended",
          severity |-> "medium"]

C18_OneGenericSignal ==
  /\ (assessment # NoAssessment /\ assessment.scores = Undef) =>
       /\ assessment.riskLevel \in {"LOW", "MEDIUM", "HIGH"}
       /\ signals = << C18_SignalOf(assessment.riskLevel) >>
  /\ (assessment = NoAssessment /\ signals # <<>>) =>
       signals = << C18_SignalOf("MEDIUM") >>

\* A text resolved to MEDIUM by the phrase SUSPICIOUS got the generic medium signal.
C18_Witness ==
  /\ C9_FreeTextPath
  /\ C9_contains(response.body.analysis[1], C9_suspicious)
  /\ assessment.riskLevel = "MEDIUM"
  /\ signals = << C18_SignalOf("MEDIUM") >>

\* ------------------------------------------- the interpreter called repeatedly
\* Up to MaxCalls calls of the interpreter, each on any of a few results, so that
\* a result is interpreted again with calls on other results in between.
MaxCalls == 3

RepeatResults ==
  {r \in StructuredResults :
     /\ r.scores.average \in {Def(0), Def(45), Def(75)}
     /\ r.verdict = Def("AUTHENTIC")
     /\ r.keyEvidence \in {Undef, Def("teeth blurring")}
     /\ r.framesAnalyzed \in {6, 24}}
  \cup
  {[success |-> TRUE, analysis |-> Def(VerdictPrefix \o N_LIKELY_AUTHENTIC),
    framesAnalyzed |-> 6]}

InterpretAgain ==
  /\ Len(callLog) < MaxCalls
  /\ \E result \in RepeatResults :
       LET r == interpret(result)
       IN  /\ response' = [status |-> 200, body |-> result]
           /\ assessment' = r.assessment
           /\ signals' = r.signals
           /\ confidence' = r.confidence
           /\ callLog' = Append(callLog, [input |-> result, output |-> r])
  /\ UNCHANGED <<request, oracle>>
  /\ UNCHANGED <<homeVars, samplerVars, resultVars>>

NextRepeat == InterpretAgain

SpecRepeat == InitConfidence /\ [][NextRepeat]_vars

C20_LevelOfTrueMean ==
  ( /\ assessment # NoAssessment
    /\ oracle.outcome = "returned"
    /\ oracle.content.kind = "object"
    /\ oracle.content.verdict = Def("AUTHENTIC")
    /\ \A name \in {"mouth_score", "eyes_score", "boundary_score", "temporal_score"} :
         oracle.content[name] # Undef ) =>
      LET sum == oracle.content.mouth_score[1] + oracle.content.eyes_score[1]
                   + oracle.content.boundary_score[1] + oracle.content.temporal_score[1]
      IN  /\ assessment.riskLevel = "HIGH" <=> sum >= 4 * 60
          /\ assessment.riskLevel = "MEDIUM" <=> (sum >= 4 * 40 /\ sum < 4 * 60)
          /\ assessment.riskLevel = "LOW" <=> sum < 4 * 40

\* C21: in the random-segment sampler, for every duration, every requested
\* frame timestamp (segment start + k x frameInterval, k in 0..14) lies in
\* [0, duration), in the random branch and in the even-spacing branch.
C21_FramesInsideVideo ==
  (variant = "random" /\ segmentTimestamps # <<>>) =>
    /\ \A i \in DOMAIN segmentTimestamps, k \in 0..14 :
         /\ segmentTimestamps[i] + k * (Sec(2) \div 15) >= 0
         /\ segmentTimestamps[i] + k * (Sec(2) \div 15) < duration
    /\ \A n \in DOMAIN issuedSeeks : issuedSeeks[n] >= 0 /\ issuedSeeks[n] < duration

\* C22: in the random-segment sampler every randomly placed segment start lies
\* in a window that leaves out the first and the last 10% of the duration, and
\* the first and last 3 seconds when the video is long enough (here: from 30 s
\* on, where 3 s is no more than 10%).
C22_StartsInSafeWindow ==
  (variant = "random" /\ segmentTimestamps # <<>> /\ attemptsUsed # <<>>) =>
    \A i \in DOMAIN segmentTimestamps :
      /\ 10 * segmentTimestamps[i] >= duration
      /\ 10 * segmentTimestamps[i] <= 9 * duration
      /\ duration >= Sec(30) =>
           /\ segmentTimestamps[i] >= Sec(3)
           /\ segmentTimestamps[i] <= duration - Sec(3)

\* C23 (as stated): for every duration of at least 3 seconds the fixed-fraction
\* sampler requests 24 frames, 8 per segment spaced 0.125 s apart, and the three
\* segments start exactly at 25%, 50% and 75% of the duration.
C23_EightPerSegment ==
  /\ Len(issuedSeeks) = 24
  /\ Len(segmentTimestamps) = 3
  /\ 8 * (Sec(1) \div 8) = Sec(1)
  /\ \A s \in 1..3, k \in 0..7 :
       issuedSeeks[8 * (s - 1) + k + 1] = segmentTimestamps[s] + k * (Sec(1) \div 8)

C24_Total == IF variant = "random" THEN 45 ELSE 24

C24_SamplingProgress ==
  (pc = "awaitFrames" /\ Len(allFrames) >= 1) =>
    /\ percent \in 0..30
    /\ 2 * C24_Total * percent - C24_Total <= 60 * Len(allFrames)
    /\ 60 * Len(allFrames) < 2 * C24_Total * percent + C24_Total
    /\ percent = 30 <=> Len(allFrames) = C24_Total

C24_Witness ==
  /\ pc = "awaitFrames"
  /\ variant = "fixed"
  /\ Len(allFrames) = 2
  /\ percent = 3

\* C25: whatever content the oracle returns, the endpoint tolerates it: content
\* that fails to parse as JSON is returned with success, structured = false and
\* the raw text, and parseAnalysisResponse takes the legacy free-text path for
\* it; the structured path is taken only when structured is true and scores are
\* present; no oracle content makes the endpoint answer with an error.
C25_ToleratesOracleContent ==
  (oracle.outcome = "returned" /\ response.status # 0) =>
    /\ response.status = 200
    /\ response.body.success
    /\ ~jsonParse(oracle.content).ok =>
         /\ response.body.structured = FALSE
         /\ response.body.analysis = Def(contentText(oracle.content))
         /\ (assessment # NoAssessment /\ contentText(oracle.content) # <<>>) =>
              assessment = parseLegacyResponse(contentText(oracle.content))
    /\ assessment # NoAssessment =>
         assessment =
           IF response.body.structured = TRUE /\ "scores" \in DOMAIN response.body
             THEN parseStructuredResponse(response.body)
             ELSE parseLegacyResponse(response.body.analysis[1])

\* C26: over one analysis run, from pressing Analyze until completion or error,
\* the progress percentage shown never decreases: no step taken while the run is
\* in progress (sampling or waiting for the endpoint) lowers it.
C26_ProgressNeverDecreases ==
  [][(pc \in {"awaitFrames", "awaitFetch"}) => (percent' >= percent)]_vars

\* C27: if the video cannot be loaded, the sampling call rejects and no request
\* is sent to the analysis endpoint for that run: the endpoint gives no answer,
\* no analysis result is stored, the page stays where it is, and the step that
\* ends the run leaves the error message set and loading false.
C27_LoadFailureEndsRun ==
  /\ [](fault = "load_error" =>
          /\ promise = "rejected"
          /\ allFrames = <<>>
          /\ pc \in {"awaitFrames", "idle"}
          /\ request = NoRequest
          /\ response = NoResponse
          /\ ~analysisResult.stored
          /\ route = "/")
  /\ [][(fault = "load_error" /\ pc = "awaitFrames" /\ pc' # "awaitFrames") =>
          (pc' = "idle" /\ error' = "Failed to load video file" /\ ~loading')]_vars

C27_Witness ==
  /\ fault = "load_error"
  /\ promise = "rejected"
  /\ pc = "idle"
  /\ error = "Failed to load video file"
  /\ ~loading
  /\ request = NoRequest
  /\ ~analysisResult.stored
====
